---- MODULE Spec2Model ----
(***************************************************************************)
(* A model of the Backtester: the simulation loop backtest.run             *)
(* (Backtest.py), the ledger it drives (Account.py) and the performance    *)
(* engine that consumes its return series (Performance.py).                *)
(*                                                                         *)
(* Floating point numbers are modelled as exact rationals <<n, d>> in      *)
(* lowest terms with d > 0; a division by zero gives <<s, 0>> with s the   *)
(* sign of the numerator (numpy's inf, -inf and nan).                      *)
(*                                                                         *)
(* The rows of pl_df are the input of run: the model draws the rows of a   *)
(* date when the loop first reaches that date.                             *)
(***************************************************************************)
EXTENDS Integers, Sequences, FiniteSets, TLC

(* ---------------------------- bounds ---------------------------------- *)
\* the largest number of rows of pl_df
MaxRows == 2
\* the largest number of rows that share one date
MaxDup == 2
\* the largest trailing window, in years, of the timeframe list
MaxYears == 2
\* the largest number of entries of the timeframe list
MaxTimeframes == 2
\* how far past one trading year the return series given to a performance
\* engine alone extend
MaxExtra == 2

(* -------------------------- rationals --------------------------------- *)
RECURSIVE GCD(_, _)
GCD(a, b) == IF b = 0 THEN a ELSE GCD(b, a % b)

Abs(x) == IF x < 0 THEN -x ELSE x

Sign(x) == IF x < 0 THEN -1 ELSE IF x > 0 THEN 1 ELSE 0

\* n / d in lowest terms; d = 0 gives inf, -inf or nan
Q(n, d) ==
    IF d = 0 THEN <<Sign(n), 0>>
    ELSE LET g == GCD(Abs(n), Abs(d))
             s == IF d < 0 THEN -1 ELSE 1
         IN  <<(s * n) \div g, (s * d) \div g>>

Zero == <<0, 1>>
One == <<1, 1>>
OfInt(i) == <<i, 1>>

\* the sums and products cancel common factors before they multiply
Add(a, b) ==
    IF a[2] = 0 \/ b[2] = 0 THEN <<IF a[2] = 0 THEN a[1] ELSE b[1], 0>>
    ELSE LET g == GCD(a[2], b[2])
         IN  Q(a[1] * (b[2] \div g) + b[1] * (a[2] \div g), (a[2] \div g) * b[2])
Neg(a) == <<-a[1], a[2]>>
Sub(a, b) == Add(a, Neg(b))
Mul(a, b) ==
    IF a[2] = 0 \/ b[2] = 0 THEN <<Sign(a[1]) * Sign(b[1]), 0>>
    ELSE LET g == GCD(Abs(a[1]), b[2])
             h == GCD(Abs(b[1]), a[2])
         IN  Q((a[1] \div g) * (b[1] \div h), (a[2] \div h) * (b[2] \div g))
Inv(a) == IF a[1] < 0 THEN <<-a[2], -a[1]>> ELSE <<a[2], a[1]>>
Div(a, b) == IF b[1] = 0 THEN <<Sign(a[1]), 0>> ELSE Mul(a, Inv(b))
Gt(a, b) ==
    LET g == GCD(a[2], b[2])
    IN  a[1] * (b[2] \div g) > b[1] * (a[2] \div g)
Le(a, b) == ~Gt(a, b)
Ge(a, b) == Le(b, a)

(* ---------------------------- inputs ---------------------------------- *)
\* tickers: list[str], in the order the loops visit them
tickers == <<"A", "B">>
Tickers == {tickers[i] : i \in 1..Len(tickers)}

\* the prices a row may give each ticker
Prices == [A |-> {100, 110}, B |-> {10, 50}]

\* the signal columns hold -1 (sell), 0 (hold) or 1 (buy)
Signals == {-1, 0, 1}

\* init_capital: float > 0
Capitals == {100, 10000}

\* slippage: float in [0, 1)
Slippages == {Zero, Q(1, 100)}

\* one row of pl_df without its Date: a price and a signal per ticker
Rows ==
    {[price |-> p, signal |-> s] :
        p \in {f \in [Tickers -> UNION {Prices[t] : t \in Tickers}] :
                    \A t \in Tickers : f[t] \in Prices[t]},
        s \in [Tickers -> Signals]}

\* the rows that precede the last row of their date: the loop reads their
\* signals only
EarlierRows == {r \in Rows : \A t \in Tickers : r.price[t] = 100 \/ r.price[t] = 10}

\* the rows of pl_df that share one date
Days(n) ==
    {d \in [1..n -> Rows] : \A i \in 1..(n - 1) : d[i] \in EarlierRows}

(* ----------------------------- state ---------------------------------- *)
VARIABLES
    pc,                   \* where the program is
    slippage,             \* backtest.slippage
    cash,                 \* account.cash
    asset_value,          \* account.asset_value
    daily_account_value,  \* account.daily_account_value
    position,             \* position.position
    n_rows,               \* the rows of pl_df the loop of run has passed
    date,                 \* the loop variable of run
    curr_day,             \* the rows of pl_df whose Date is date
    again,                \* the rows of date the loop has still to visit
    port_ret,             \* backtest.port_ret
    perf,                 \* the last Performance.performance constructed
    timeframe,            \* backtest.timeframe
    turn,                 \* the entry of timeframe the loop is at
    columns,              \* the columns generate_performance adds to pl_df
    windowed,             \* the windowed metrics computed so far
    returned              \* what the last call of a performance method returned

vars == <<pc, slippage, cash, asset_value, daily_account_value, position,
          n_rows, date, curr_day, again, port_ret, perf, timeframe, turn,
          columns, windowed, returned>>

\* the variables of generate_performance, generate_report and the engine
perf_vars == <<perf, timeframe, turn, columns, windowed, returned>>

\* the variables of the ledger and of the loop of run
run_vars == <<slippage, cash, asset_value, daily_account_value, position,
              n_rows, date, curr_day, again>>

None == "None"

\* account.__init__
account_init(init_cash) ==
    /\ cash = OfInt(init_cash)
    /\ asset_value = Zero
    /\ daily_account_value = [Date |-> <<>>, Account_Value |-> <<>>]

\* position.__init__
position_init == position = [t \in Tickers |-> Zero]

\* backtest.__init__
Init ==
    /\ pc = "for"
    /\ slippage \in Slippages
    /\ \E c \in Capitals : account_init(c)
    /\ position_init
    /\ n_rows = 0
    /\ date = 0
    /\ curr_day = <<>>
    /\ again = 0
    /\ port_ret = None
    /\ perf = None
    /\ timeframe = None
    /\ turn = 0
    /\ columns = None
    /\ windowed = {}
    /\ returned = [of |-> None, value |-> <<>>]

(* ------------------------- backtest.run ------------------------------- *)
last(s) == s[Len(s)]

\* curr_day[ticker][-1]
price_of(day, t) == OfInt(last(day).price[t])

\* curr_day_signal[f'{ticker}_signal'][-1]
signal_of(day, t) == last(day).signal[t]

buy_signal(day) == \E i \in 1..Len(day) : \E t \in Tickers : day[i].signal[t] = 1

sell_signal(day) == \E i \in 1..Len(day) : \E t \in Tickers : day[i].signal[t] = -1

\* the for statement takes the next date of self.dates and filters its rows
NextDate ==
    /\ pc = "for"
    /\ \/ /\ again > 0
          /\ again' = again - 1
          /\ UNCHANGED <<date, curr_day>>
       \/ /\ again = 0
          /\ \E n \in 1..MaxDup :
                /\ n_rows + n <= MaxRows
                /\ curr_day' \in Days(n)
                /\ again' = n - 1
          /\ date' = date + 1
    /\ n_rows' = n_rows + 1
    /\ pc' = "sell"
    /\ UNCHANGED <<slippage, cash, asset_value, daily_account_value, position,
                   port_ret, perf_vars>>

\* the condition of the sell pass on one ticker
sells(day, pos, t) == signal_of(day, t) = -1 /\ pos[t] # Zero

\* sell_credit with the slippage added instead of deducted
sell_credit_plus(price, quantity, s) == Mul(Mul(price, quantity), Add(One, s))

\* what a sale credits
sell_credit(price, quantity, s) == Mul(Mul(price, quantity), Sub(One, s))

\* update_cash that keeps cash from falling below 0
update_cash_clamped(c, delta) == IF Gt(Zero, Add(c, delta)) THEN Zero ELSE Add(c, delta)

\* account.update_cash
update_cash(c, delta) == Add(c, delta)

\* the cash after the sell pass has visited tickers[i..]
RECURSIVE sell_cash(_, _, _, _, _)
sell_cash(i, day, pos, s, c) ==
    IF i > Len(tickers) THEN c
    ELSE LET t == tickers[i] IN
         sell_cash(i + 1, day, pos, s,
                   IF sells(day, pos, t)
                   THEN update_cash(c, sell_credit(price_of(day, t), pos[t], s))
                   ELSE c)

\* sell_position that leaves the sold holdings in place
sell_position_kept(day, pos) == pos

sell_position(day, pos) ==
    [t \in Tickers |-> IF sells(day, pos, t) THEN Zero ELSE pos[t]]

SellPass ==
    /\ pc = "sell"
    /\ IF sell_signal(curr_day)
       THEN /\ cash' = sell_cash(1, curr_day, position, slippage, cash)
            /\ position' = sell_position(curr_day, position)
       ELSE UNCHANGED <<cash, position>>
    /\ pc' = "buy"
    /\ UNCHANGED <<slippage, asset_value, daily_account_value, n_rows, date,
                   curr_day, again, port_ret, perf_vars>>

\* buy_ticker: the tickers with signal 1 and no holding, in the order of tickers
buy_ticker(day, pos) ==
    SelectSeq(tickers, LAMBDA t : signal_of(day, t) = 1 /\ pos[t] = Zero)

\* cash_allocation that gives every candidate the whole cash
cash_allocation_whole(c, candidates) == c

cash_allocation(c, candidates) == Div(c, OfInt(Len(candidates)))

\* lot_filter that lets a purchase of exactly one unit pass
lot_filter_one(allocation, price) == Ge(Div(allocation, price), One)

\* the minimum lot filter
lot_filter(allocation, price) == Gt(Div(allocation, price), One)

\* buy_debit with the slippage deducted instead of added
buy_debit_less(allocation, s) == Mul(allocation, Sub(One, s))

\* what a purchase debits
buy_debit(allocation, s) == Mul(allocation, Add(One, s))

buys(day, pos, c) ==
    /\ Gt(c, Zero)
    /\ Len(buy_ticker(day, pos)) > 0

bought(day, pos, c, t) ==
    /\ buys(day, pos, c)
    /\ \E i \in 1..Len(buy_ticker(day, pos)) : buy_ticker(day, pos)[i] = t
    /\ lot_filter(cash_allocation(c, buy_ticker(day, pos)), price_of(day, t))

\* the cash after the buy pass has visited candidates[i..]
RECURSIVE buy_cash(_, _, _, _, _, _)
buy_cash(i, candidates, day, allocation, s, c) ==
    IF i > Len(candidates) THEN c
    ELSE buy_cash(i + 1, candidates, day, allocation, s,
                  IF lot_filter(allocation, price_of(day, candidates[i]))
                  THEN update_cash(c, Neg(buy_debit(allocation, s)))
                  ELSE c)

buy_position(day, pos, c) ==
    [t \in Tickers |->
        IF bought(day, pos, c, t)
        THEN Div(cash_allocation(c, buy_ticker(day, pos)), price_of(day, t))
        ELSE pos[t]]

BuyPass ==
    /\ pc = "buy"
    /\ IF buy_signal(curr_day) /\ buys(curr_day, position, cash)
       THEN /\ cash' = buy_cash(1, buy_ticker(curr_day, position), curr_day,
                                cash_allocation(cash, buy_ticker(curr_day, position)),
                                slippage, cash)
            /\ position' = buy_position(curr_day, position, cash)
       ELSE UNCHANGED <<cash, position>>
    /\ pc' = "mark"
    /\ UNCHANGED <<slippage, asset_value, daily_account_value, n_rows, date,
                   curr_day, again, port_ret, perf_vars>>

\* today_asset_value after the loop has visited tickers[i..]
RECURSIVE today_asset_value(_, _, _, _)
today_asset_value(i, day, pos, v) ==
    IF i > Len(tickers) THEN v
    ELSE today_asset_value(i + 1, day, pos,
                           Add(v, Mul(pos[tickers[i]], price_of(day, tickers[i]))))

\* account.update_asset_value
MarkToMarket ==
    /\ pc = "mark"
    /\ asset_value' = today_asset_value(1, curr_day, position, Zero)
    /\ pc' = "record"
    /\ UNCHANGED <<slippage, cash, daily_account_value, position, n_rows, date,
                   curr_day, again, port_ret, perf_vars>>

\* account_value that leaves the asset value out
account_value_cash(c, a) == c

\* the value account.update_daily_account_value appends
account_value(c, a) == Add(c, a)

\* account.update_daily_account_value
update_daily_account_value(d) ==
    daily_account_value' =
        [Date |-> Append(daily_account_value.Date, d),
         Account_Value |-> Append(daily_account_value.Account_Value,
                                  account_value(cash, asset_value))]

RecordPeriod ==
    /\ pc = "record"
    /\ update_daily_account_value(date)
    /\ pc' = "for"
    /\ UNCHANGED <<slippage, cash, asset_value, position, n_rows, date,
                   curr_day, again, port_ret, perf_vars>>

\* np.diff(V) / V[1:]
diff_ratio(V) ==
    [i \in 1..(IF Len(V) = 0 THEN 0 ELSE Len(V) - 1) |->
        Div(Sub(V[i + 1], V[i]), V[i + 1])]

\* np.pad(r, (1, 0), 'constant', constant_values = 0)
pad_front(r) == <<Zero>> \o r

\* the loop of run is over: the return series
Returns ==
    /\ pc = "for"
    /\ again = 0
    /\ port_ret' = pad_front(diff_ratio(daily_account_value.Account_Value))
    /\ pc' = "ran"
    /\ UNCHANGED <<slippage, cash, asset_value, daily_account_value, position,
                   n_rows, date, curr_day, again, perf_vars>>

(* ------------------------ Performance.py ------------------------------ *)
trade_days == 252

\* portfolio_ret[-n : ]
tail_slice(r, n) ==
    IF n = 0 \/ n >= Len(r) THEN r ELSE SubSeq(r, Len(r) - n + 1, Len(r))

\* performance.__init__
performance(portfolio_ret, years) ==
    [years |-> years,
     timeframe |-> years * trade_days,
     portfolio_ret |-> tail_slice(portfolio_ret, years * trade_days),
     rolling |-> portfolio_ret]

\* np.cumprod(1 + r) over r[lo..hi], acc the product of the entries before
\* lo: the range is halved to keep the recursion shallow
RECURSIVE cumprod_from(_, _, _, _)
cumprod_from(r, lo, hi, acc) ==
    IF lo > hi THEN <<>>
    ELSE IF lo = hi THEN <<Mul(acc, Add(One, r[lo]))>>
    ELSE LET mid == (lo + hi) \div 2
             left == cumprod_from(r, lo, mid, acc)
         IN  left \o cumprod_from(r, mid + 1, hi, left[Len(left)])

cumprod(r) == cumprod_from(r, 1, Len(r), One)

\* np.maximum.accumulate(c) over c[lo..hi], m the largest entry before lo
RECURSIVE maximum_from(_, _, _, _)
maximum_from(c, lo, hi, m) ==
    IF lo > hi THEN <<>>
    ELSE IF lo = hi THEN <<IF lo = 1 \/ Gt(c[lo], m) THEN c[lo] ELSE m>>
    ELSE LET mid == (lo + hi) \div 2
             left == maximum_from(c, lo, mid, m)
         IN  left \o maximum_from(c, mid + 1, hi, left[Len(left)])

maximum_accumulate(c) == maximum_from(c, 1, Len(c), Zero)

\* cum_ret / peak - 1 of a return series
drawdown_of(r) ==
    LET cum_ret == cumprod(r)
        peak == maximum_accumulate(cum_ret)
    IN  [i \in 1..Len(r) |-> Sub(Div(cum_ret[i], peak[i]), One)]

\* performance.compute_cum_rets
compute_cum_rets(p) == cumprod(p.rolling)

\* the series performance.compute_drawdown works on
drawdown_series(p) == p.portfolio_ret

\* performance.compute_drawdown
compute_drawdown(p) == drawdown_of(drawdown_series(p))

(* ---------- backtest.generate_performance, generate_report ------------ *)
\* timeframe: list[int], the trailing windows in years
Timeframes ==
    UNION {[1..n -> 0..MaxYears] : n \in 0..MaxTimeframes}

\* the condition under which the windowed metrics of tf years are computed
window_guard(length, tf) == length > tf

\* one computation of windowed metrics (rolling Sharpe and Sortino in
\* generate_performance; annualized return, Sharpe, Sortino, maximal
\* drawdown and volatility in generate_report): the engine it was computed
\* on; the values of the metrics are not modelled
windowed_metrics(by, p) ==
    [by |-> by, years |-> p.years, window_length |-> p.timeframe,
     series_length |-> Len(p.rolling)]

\* generate_performance up to its loop: the columns of the whole series.
\* The timeframe list is an input: the model draws it here, where it is
\* first read.
GeneratePerformance ==
    /\ pc = "ran"
    /\ timeframe' \in Timeframes
    /\ turn' = 1
    /\ perf' = performance(port_ret, 0)
    /\ columns' = [portfolio_cum_ret |-> compute_cum_rets(perf'),
                   portfolio_drawdown |-> compute_drawdown(perf')]
    /\ pc' = "performance"
    /\ UNCHANGED <<run_vars, port_ret, windowed, returned>>

\* one turn of the loop over timeframe of generate_performance or
\* generate_report
window_turn(by) ==
    LET tf == timeframe[turn] IN
    /\ IF window_guard(n_rows, tf)
       THEN /\ perf' = performance(port_ret, tf)
            /\ windowed' = windowed \cup {windowed_metrics(by, perf')}
       ELSE UNCHANGED <<perf, windowed>>
    /\ turn' = turn + 1

PerformanceWindow ==
    /\ pc = "performance"
    /\ turn <= Len(timeframe)
    /\ window_turn("generate_performance")
    /\ UNCHANGED <<pc, run_vars, port_ret, timeframe, columns, returned>>

\* generate_report starts its loop over timeframe (for one metric of
\* self.metrics: every metric repeats the same loop)
GenerateReport ==
    /\ pc = "performance"
    /\ turn > Len(timeframe)
    /\ turn' = 1
    /\ pc' = "report"
    /\ UNCHANGED <<run_vars, port_ret, perf, timeframe, columns, windowed, returned>>

ReportWindow ==
    /\ pc = "report"
    /\ turn <= Len(timeframe)
    /\ window_turn("generate_report")
    /\ UNCHANGED <<pc, run_vars, port_ret, timeframe, columns, returned>>

(* -------------------- the performance engine alone -------------------- *)
\* a return that is not zero
Spikes == {Q(-1, 2), Zero, One}

\* the lengths of the return series: short ones, and ones around one
\* trading year
Lengths == {1, 2} \cup {trade_days + e : e \in 0..MaxExtra}

\* the periods whose return may differ from zero
spike_at(length) == {2, length - 1, length} \cap (2..length)

\* the return series: the first return is the zero run pads with
ReturnSeries ==
    UNION {{[i \in 1..length |-> IF i \in spike_at(length) THEN f[i] ELSE Zero] :
                f \in [spike_at(length) -> Spikes]} : length \in Lengths}

\* a backtest that has run: port_ret is any of the return series
InitRan ==
    /\ pc = "ran"
    /\ port_ret \in ReturnSeries
    /\ n_rows = Len(port_ret)
    /\ slippage = Zero
    /\ cash = Zero
    /\ asset_value = Zero
    /\ daily_account_value = [Date |-> <<>>, Account_Value |-> <<>>]
    /\ position_init
    /\ date = 0
    /\ curr_day = <<>>
    /\ again = 0
    /\ perf = None
    /\ timeframe = None
    /\ turn = 0
    /\ columns = None
    /\ windowed = {}
    /\ returned = [of |-> None, value |-> <<>>]

\* Performance.performance(port_ret, years)
Construct ==
    /\ pc = "ran"
    /\ \E years \in 0..MaxYears : perf' = performance(port_ret, years)
    /\ pc' = "engine"
    /\ UNCHANGED <<run_vars, port_ret, timeframe, turn, columns, windowed, returned>>

ComputeDrawdown ==
    /\ pc = "engine"
    /\ returned' = [of |-> "compute_drawdown", value |-> compute_drawdown(perf)]
    /\ UNCHANGED <<pc, run_vars, port_ret, perf, timeframe, turn, columns, windowed>>

ComputeCumRets ==
    /\ pc = "engine"
    /\ returned' = [of |-> "compute_cum_rets", value |-> compute_cum_rets(perf)]
    /\ UNCHANGED <<pc, run_vars, port_ret, perf, timeframe, turn, columns, windowed>>

(* ------------------------- specifications ----------------------------- *)
\* backtest.run
Next ==
    \/ NextDate
    \/ SellPass
    \/ BuyPass
    \/ MarkToMarket
    \/ RecordPeriod
    \/ Returns

Spec == Init /\ [][Next]_vars

\* what follows run: generate_performance, generate_report and the calls
\* of the performance engine
NextPerf ==
    \/ GeneratePerformance
    \/ PerformanceWindow
    \/ GenerateReport
    \/ ReportWindow
    \/ Construct
    \/ ComputeDrawdown
    \/ ComputeCumRets

SpecPerf == InitRan /\ [][NextPerf]_vars

\* run, followed by the head of generate_performance: the cumulative
\* returns and the drawdown of the return series run produced
NextRunPerf ==
    \/ Next
    \/ GeneratePerformance

SpecRunPerf == Init /\ [][NextRunPerf]_vars

(* ------------------------------ claims -------------------------------- *)
\* the sum of f[t] over the tickers of S
RECURSIVE SumOver(_, _)
SumOver(S, f) ==
    IF S = {} THEN Zero
    ELSE LET t == CHOOSE x \in S : TRUE
         IN  Add(f[t], SumOver(S \ {t}, f))

\* the price and the signal the period gives a ticker: those of the last row
\* of the date
PeriodPrice(t) == OfInt(curr_day[Len(curr_day)].price[t])
PeriodSignal(t) == curr_day[Len(curr_day)].signal[t]

History == daily_account_value.Account_Value

\* the holdings valued at the period's prices
HoldingsValue == SumOver(Tickers, [t \in Tickers |-> Mul(position[t], PeriodPrice(t))])

\* C1: ledger identity. Whenever run has recorded a period (and until it
\* starts the next one), the history has one entry per period passed and
\* its newest entry equals the cash left by the period's sell and buy passes
\* plus the sum over all instruments of holding times the period's price.
\* With the history append-only, this is the identity of every entry.
C1_LedgerIdentity ==
    (pc \in {"for", "ran"} /\ n_rows > 0) =>
        /\ Len(History) = n_rows
        /\ History[n_rows] = Add(cash, HoldingsValue)

\* C1 witness: a period was recorded with cash and holdings both not zero
C1_Witness ==
    /\ pc = "for"
    /\ n_rows = 1
    /\ cash = OfInt(-100)
    /\ position["A"] = OfInt(100)
    /\ History[1] = OfInt(9900)

\* the tickers that some row of the date tells to sell and some row to buy
ReceivesBoth(t) ==
    /\ \E i \in 1..Len(curr_day) : curr_day[i].signal[t] = -1
    /\ \E i \in 1..Len(curr_day) : curr_day[i].signal[t] = 1

\* the buy candidates of the state: signal 1 and no holding
Candidates == {t \in Tickers : PeriodSignal(t) = 1 /\ position[t] = Zero}

\* the equal-weight allocation of the state
Allocation == Div(cash, OfInt(Cardinality(Candidates)))

\* the candidates whose allocation buys more than one unit
Passing == {t \in Candidates : Gt(Div(Allocation, PeriodPrice(t)), One)}

C3_BuyPass ==
    [][pc = "buy" =>
        IF Gt(cash, Zero) /\ Candidates # {}
        THEN /\ \A t \in Passing : position'[t] = Div(Allocation, PeriodPrice(t))
             /\ \A t \in Candidates \ Passing : position'[t] = Zero
             /\ \A t \in Tickers \ Candidates : position'[t] = position[t]
             /\ cash' = Sub(cash, Mul(OfInt(Cardinality(Passing)),
                                      Mul(Allocation, Add(One, slippage))))
        ELSE cash' = cash /\ position' = position]_vars

\* C3 witness: A and B were candidates for 100 of cash; B at 10 got 5 units
\* for its half, A failed the filter and its half stayed in cash
C3_Witness ==
    /\ pc = "mark"
    /\ n_rows = 1
    /\ slippage = Zero
    /\ PeriodSignal("A") = 1
    /\ PeriodSignal("B") = 1
    /\ position["A"] = Zero
    /\ position["B"] = OfInt(5)
    /\ cash = OfInt(50)

\* the instruments the sell pass liquidates
Sold == {t \in Tickers : PeriodSignal(t) = -1 /\ position[t] # Zero}

\* C4: sell pass. Every instrument with signal -1 and a holding q # 0 is
\* liquidated: its holding becomes 0 and cash grows by p * q * (1 - slippage);
\* every other holding is unchanged, and cash changes by nothing else.
C4_SellPass ==
    [][pc = "sell" =>
        /\ \A t \in Sold : position'[t] = Zero
        /\ \A t \in Tickers \ Sold : position'[t] = position[t]
        /\ cash' = Add(cash,
                       SumOver(Sold,
                               [t \in Tickers |->
                                   Mul(Mul(PeriodPrice(t), position[t]),
                                       Sub(One, slippage))]))]_vars

\* C4 witness: 100 units of A were sold at 110 with slippage 0.01
C4_Witness ==
    /\ pc = "buy"
    /\ n_rows = 2
    /\ slippage = Q(1, 100)
    /\ PeriodSignal("A") = -1
    /\ PeriodPrice("A") = OfInt(110)
    /\ position["A"] = Zero
    /\ cash = OfInt(10790)

\* C5: return series. After run over N periods the series has N entries,
\* the first is 0 and entry t is (V[t] - V[t-1]) / V[t].
C5_ReturnSeries ==
    pc = "ran" =>
        /\ Len(port_ret) = n_rows
        /\ n_rows > 0 => port_ret[1] = Zero
        /\ \A t \in 2..n_rows :
                port_ret[t] = Div(Sub(History[t], History[t - 1]), History[t])

\* C5 for a table that is not empty
C5_ReturnSeriesOfRows ==
    (pc = "ran" /\ n_rows > 0) =>
        /\ Len(port_ret) = n_rows
        /\ port_ret[1] = Zero
        /\ \A t \in 2..n_rows :
                port_ret[t] = Div(Sub(History[t], History[t - 1]), History[t])

\* C6: the history has one entry per simulated period, and its dates are
\* strictly increasing.
C6_History ==
    /\ \A i, j \in 1..Len(daily_account_value.Date) :
            i < j => daily_account_value.Date[i] < daily_account_value.Date[j]
    /\ pc = "ran" => Len(History) = date

\* C6, what the code keeps: the history is append-only, with one entry per
\* row of the table
C6_AppendOnly ==
    [][/\ Len(History') >= Len(History)
       /\ SubSeq(History', 1, Len(History)) = History
       /\ pc' = "ran" => Len(History') = n_rows']_vars

\* C7: negative cash is permitted. A buy is executed in full whenever the
\* allocation buys more than one unit, whatever the cash left: with 10000 of
\* cash, slippage 0.01 and one candidate priced 100 the holding is 100 and
\* cash ends at -100; in general the cash after the pass is the cash before
\* less the full debit of every executed buy, and it is negative whenever
\* every candidate buys and slippage is positive.
C7_NegativeCash ==
    [][(pc = "buy" /\ Gt(cash, Zero) /\ Candidates # {}) =>
        /\ \A t \in Passing : position'[t] = Div(Allocation, PeriodPrice(t))
        /\ Add(cash', Mul(OfInt(Cardinality(Passing)),
                          Mul(Allocation, Add(One, slippage)))) = cash
        /\ (Passing = Candidates /\ Gt(slippage, Zero)) =>
                /\ Gt(Zero, cash')
                /\ cash' = Neg(Mul(cash, slippage))
        /\ (/\ cash = OfInt(10000)
            /\ slippage = Q(1, 100)
            /\ \E t \in Tickers : Candidates = {t} /\ PeriodPrice(t) = OfInt(100)) =>
                /\ cash' = OfInt(-100)
                /\ \A t \in Candidates : position'[t] = OfInt(100)]_vars

\* C7 witness: the scenario of the claim
C7_Witness ==
    /\ pc = "mark"
    /\ n_rows = 1
    /\ slippage = Q(1, 100)
    /\ PeriodSignal("A") = 1
    /\ PeriodSignal("B") # 1
    /\ PeriodPrice("A") = OfInt(100)
    /\ position["A"] = OfInt(100)
    /\ cash = OfInt(-100)

\* C8: long only. Every holding is 0 or more than 1.
C8_LongOnly ==
    \A t \in Tickers : position[t] = Zero \/ Gt(position[t], One)

\* C8 witness: a holding of two units, just above the lot filter
C8_Witness ==
    /\ pc = "mark"
    /\ position["B"] = OfInt(2)

\* C9: the windowed metrics of tf years are computed only when the series is
\* longer than the window of tf * 252 periods.
C9_WindowGuard ==
    \A w \in windowed :
        /\ w.window_length = w.years * 252
        /\ w.series_length > w.window_length

\* C10: compute_drawdown of every performance engine returns the drawdown
\* of the whole return series: one value per period, cum_ret / running_max
\* - 1 of the whole series, each <= 0.
C10_DrawdownOfWholeSeries ==
    returned.of = "compute_drawdown" =>
        /\ Len(returned.value) = Len(perf.rolling)
        /\ returned.value = drawdown_of(perf.rolling)
        /\ \A i \in 1..Len(returned.value) : Le(returned.value[i], Zero)

\* C11: the cumulative returns of a return series run produced, the account
\* values all positive: as long as the series, 1 at the first period and
\* never negative.
C11_CumulativeReturns ==
    (/\ pc = "performance"
     /\ \A t \in 1..Len(History) : Gt(History[t], Zero)) =>
        /\ Len(columns.portfolio_cum_ret) = Len(port_ret)
        /\ columns.portfolio_cum_ret[1] = One
        /\ \A t \in 1..Len(port_ret) : Ge(columns.portfolio_cum_ret[t], Zero)

\* C11, what the code keeps: the length and the first entry
C11_CumulativeReturnsStart ==
    pc = "performance" =>
        /\ Len(columns.portfolio_cum_ret) = Len(port_ret)
        /\ columns.portfolio_cum_ret[1] = One

\* cash plus the holdings valued at the period's prices
Wealth == Add(cash, HoldingsValue)

\* Wealth after the step
WealthNext ==
    Add(cash', SumOver(Tickers, [t \in Tickers |-> Mul(position'[t], PeriodPrice(t))]))

\* C12: trading never creates value. Within a period the sell pass lowers
\* cash + sum of holding * period price by exactly price * quantity *
\* slippage for each sale, the buy pass by exactly allocation * slippage for
\* each executed buy, and neither ever raises it; marking to market and
\* recording leave it alone and record it. So with slippage 0 it is unchanged
\* from before the trades to the recorded account value.
C12_NoValueCreated ==
    [][/\ pc = "sell" =>
            /\ WealthNext =
                  Sub(Wealth,
                      SumOver(Sold,
                              [t \in Tickers |->
                                  Mul(Mul(PeriodPrice(t), position[t]), slippage)]))
            /\ Le(WealthNext, Wealth)
       /\ pc = "buy" =>
            /\ WealthNext =
                  Sub(Wealth,
                      IF Gt(cash, Zero) /\ Candidates # {}
                      THEN Mul(OfInt(Cardinality(Passing)), Mul(Allocation, slippage))
                      ELSE Zero)
            /\ Le(WealthNext, Wealth)
       /\ (pc \in {"sell", "buy"} /\ slippage = Zero) => WealthNext = Wealth
       /\ pc = "mark" => WealthNext = Wealth /\ asset_value' = HoldingsValue
       /\ pc = "record" =>
            /\ Len(History') = Len(History) + 1
            /\ History'[Len(History')] = Wealth]_vars

\* C12 witness: with slippage 0.01 the second period sold 100 A at 110 and
\* bought B at 50 for the 10790 of cash: of the 10900 before the trades,
\* 10682.1 are left
C12_Witness ==
    /\ pc = "for"
    /\ n_rows = 2
    /\ slippage = Q(1, 100)
    /\ History = <<OfInt(9900), Q(106821, 10)>>
    /\ cash = Q(-1079, 10)
    /\ asset_value = OfInt(10790)

====
